---- MODULE Spec2Model ----
(***************************************************************************)
(* chrypto: backfill of hourly quotes from a paginated remote API into a   *)
(* per-symbol SQLite table (src/chrypto.go).                               *)
(*                                                                         *)
(* One goroutine per command-line symbol runs getHistoricalFor; main       *)
(* receives one message per goroutine over the unbuffered channels donec   *)
(* and errc.  The remote API and the SQLite store are the environment:     *)
(* the API is a fixed hourly history, the store is a set of tables with a  *)
(* single database-wide write lock and per-connection transactions.        *)
(***************************************************************************)
EXTENDS Integers, Sequences, FiniteSets, TLC

\* Quotes per page; stands for limit=2000 of the request (chrypto.go:57).
PageSize == 3

\* time.Now().Unix() of the run, in hours; the remote history covers 1..MaxTime.
MaxTime == 4

Symbols == {"BTC", "ETH"}

\* Positions of a command line of one or two symbols.
DriverIds == {1, 2}

\* The command lines: one or two symbols, repeats allowed.
ArgLists == UNION {[1..n -> Symbols] : n \in DriverIds}

\* What the remote holds for one hour: a quote with all prices set, a
\* placeholder with all four prices zero, or a quote whose open alone is zero.
Kinds == {"real", "zero", "openzero"}

NoDriver == 0

\* Guard on the recursion depth of getHistoricalFor: the cursor never goes
\* below this in the program as written (a page ending at or before hour 0 is
\* all placeholders).
MinCursor == 0 - (2 * PageSize)

VARIABLES
    api,        \* remote history: hour -> kind of quote (same shape per symbol)
    symbols,    \* flag.Args(): one goroutine per position
    tables,     \* sqlite_master: the symbols that have a table
    rows,       \* committed rows of each symbol's table, in rowid order
    wlock,      \* driver whose connection holds SQLite's write lock, or NoDriver
    tx,         \* per driver: the transaction opened by db.Begin
    pc,         \* per driver: position in getHistoricalFor / writeToDB
    unixtime,   \* per driver: the unixtime argument of the current call
    data,       \* per driver: the page returned by get
    idx,        \* per driver: position of the range loop of writeToDB
    err,        \* per driver: the error writeToDB returned
    fetched,    \* per driver: how the last get ended
    got,        \* messages main has received, in order
    proc,       \* the process: running, exited, fatal (log.Fatal), panic
    run,        \* 1 for the first invocation on this database file, 2 for a re-run
    prevRows,   \* rows as the previous invocation left them
    prevGot     \* messages main received in the previous invocation

vars == <<api, symbols, tables, rows, wlock, tx, pc, unixtime, data, idx, err,
          fetched, got, proc, run, prevRows, prevGot>>

\* One goroutine (driver) per position of flag.Args() (lines 219-222).
Drivers == DOMAIN symbols

\* Goroutine d exists and the process has not ended.
Active(d) == d \in Drivers /\ proc = "running"

----------------------------------------------------------------------------
\* Quote (chrypto.go:23-31) as the remote serves it.

Vol(s) == IF s = "BTC" THEN 1 ELSE 2

Quote(s, t, k) ==
    [Time       |-> t,
     Close      |-> IF k = "zero" THEN 0 ELSE 1,
     High       |-> IF k = "zero" THEN 0 ELSE 1,
     Low        |-> IF k = "zero" THEN 0 ELSE 1,
     Open       |-> IF k = "real" THEN 1 ELSE 0,
     VolumeFrom |-> IF k = "zero" THEN 0 ELSE 1,
     VolumeTo   |-> IF k = "zero" THEN 0 ELSE Vol(s)]

\* Hours outside the history are served as zero placeholders.
KindAt(t) == IF t \in 1..MaxTime THEN api[t] ELSE "zero"

\* The body of a well-formed response to histohour?...&limit=PageSize&toTs=t:
\* PageSize consecutive hours, ascending, ending at t.
Page(s, t) ==
    [k \in 1..PageSize |-> Quote(s, t - PageSize + k, KindAt(t - PageSize + k))]

\* The rows an earlier invocation, started one hour earlier and interrupted
\* after its first page, left in the table: the page ending at MaxTime - 1,
\* with the volumes the remote served then.
StaleRows(s) ==
    [k \in 1..PageSize |->
        [Quote(s, MaxTime - 1 - PageSize + k, "real") EXCEPT !.VolumeFrom = 9]]

isDummyQuote(quote) ==
    (quote.Open = 0) /\ (quote.Close = 0) /\ (quote.High = 0) /\ (quote.Low = 0)

NoTx == [open |-> FALSE, rows |-> <<>>]

Range(f) == {f[i] : i \in DOMAIN f}

Last(s) == s[Len(s)]

----------------------------------------------------------------------------
Init ==
    /\ symbols \in ArgLists
    /\ api \in [1..MaxTime -> Kinds]
    /\ \/ /\ tables = {}
          /\ rows = [s \in Symbols |-> <<>>]
       \/ /\ tables = Symbols
          /\ rows = [s \in Symbols |-> StaleRows(s)]
    /\ wlock = NoDriver
    /\ tx = [d \in Drivers |-> NoTx]
    /\ pc = [d \in Drivers |-> "get"]
    /\ unixtime = [d \in Drivers |-> MaxTime]
    /\ data = [d \in Drivers |-> <<>>]
    /\ idx = [d \in Drivers |-> 0]
    /\ err = [d \in Drivers |-> "nil"]
    /\ fetched = [d \in Drivers |-> "none"]
    /\ got = <<>>
    /\ proc = "running"
    /\ run = 1
    /\ prevRows = rows
    /\ prevGot = <<>>

----------------------------------------------------------------------------
\* get (chrypto.go:56-71).

\* http.Get succeeds and the body decodes: the page ending at unixtime.
GetPage(d) ==
    /\ Active(d)
    /\ pc[d] = "get"
    /\ unixtime[d] > MinCursor
    /\ data' = [data EXCEPT ![d] = Page(symbols[d], unixtime[d])]
    /\ fetched' = [fetched EXCEPT ![d] = "ok"]
    /\ pc' = [pc EXCEPT ![d] = "classify"]
    /\ UNCHANGED <<api, symbols, tables, rows, wlock, tx, unixtime, idx, err,
                   got, proc, run, prevRows, prevGot>>

\* http.Get returns an error: log.Fatal ends the whole process (line 60).
GetTransportError(d) ==
    /\ Active(d)
    /\ pc[d] = "get"
    /\ unixtime[d] > MinCursor
    /\ fetched' = [fetched EXCEPT ![d] = "transport"]
    /\ proc' = "fatal"
    /\ UNCHANGED <<api, symbols, tables, rows, wlock, tx, pc, unixtime, data,
                   idx, err, got, run, prevRows, prevGot>>

\* The body does not decode.  Line 66 tests the err of http.Get, which is nil
\* here, so nothing is logged and info.Data, left empty, is returned.
GetDecodeError(d) ==
    /\ Active(d)
    /\ pc[d] = "get"
    /\ unixtime[d] > MinCursor
    /\ data' = [data EXCEPT ![d] = <<>>]
    /\ fetched' = [fetched EXCEPT ![d] = "decode"]
    /\ pc' = [pc EXCEPT ![d] = "classify"]
    /\ UNCHANGED <<api, symbols, tables, rows, wlock, tx, unixtime, idx, err,
                   got, proc, run, prevRows, prevGot>>

\* The remote accepts the request and never answers.  http.Get (line 58) goes
\* through http.DefaultClient, whose Timeout is zero: the call never returns
\* and the goroutine stays inside get.
GetHangs(d) ==
    /\ Active(d)
    /\ pc[d] = "get"
    /\ unixtime[d] > MinCursor
    /\ pc' = [pc EXCEPT ![d] = "hung"]
    /\ UNCHANGED <<api, symbols, tables, rows, wlock, tx, unixtime, data, idx,
                   err, fetched, got, proc, run, prevRows, prevGot>>

----------------------------------------------------------------------------
\* getHistoricalFor (chrypto.go:176-198).

\* Lines 180-185: data[len(data)-1] panics on an empty page; a placeholder in
\* last position sends on donec and returns; otherwise writeToDB is entered.
Classify(d) ==
    /\ Active(d)
    /\ pc[d] = "classify"
    /\ IF Len(data[d]) = 0
         THEN /\ proc' = "panic"
              /\ pc' = pc
         ELSE /\ proc' = proc
              /\ pc' = [pc EXCEPT ![d] =
                          IF isDummyQuote(Last(data[d])) THEN "sendDone"
                                                         ELSE "select"]
    /\ UNCHANGED <<api, symbols, tables, rows, wlock, tx, unixtime, data, idx,
                   err, fetched, got, run, prevRows, prevGot>>

\* Lines 195-197: the pause, then the recursive call with untilDate.
Sleep(d) ==
    /\ Active(d)
    /\ pc[d] = "sleep"
    /\ pc' = [pc EXCEPT ![d] = "get"]
    /\ UNCHANGED <<api, symbols, tables, rows, wlock, tx, unixtime, data, idx,
                   err, fetched, got, proc, run, prevRows, prevGot>>

----------------------------------------------------------------------------
\* createTableIfNeeded, createTable (chrypto.go:73-104).

\* The connection of driver h returned from writeToDB with its transaction
\* neither committed nor rolled back.
Abandoned(h) == h \in Drivers /\ pc[h] \in {"sendErr", "failed"}

\* Another connection holds the write lock.
Blocked(d) == wlock \notin {NoDriver, d}

\* Lines 90-103: the SELECT on sqlite_master decides whether to create.
createTableIfNeeded(d) ==
    /\ Active(d)
    /\ pc[d] = "select"
    /\ pc' = [pc EXCEPT ![d] =
                IF symbols[d] \in tables THEN "begin" ELSE "create"]
    /\ UNCHANGED <<api, symbols, tables, rows, wlock, tx, unixtime, data, idx,
                   err, fetched, got, proc, run, prevRows, prevGot>>

\* Lines 75-83: CREATE TABLE fails when the table exists by now, or when the
\* write lock stays with an abandoned transaction until the busy timeout; it
\* waits while a live transaction holds the lock.
createTable(d) ==
    /\ Active(d)
    /\ pc[d] = "create"
    /\ IF symbols[d] \in tables
         THEN /\ err' = [err EXCEPT ![d] = "exists"]
              /\ pc' = [pc EXCEPT ![d] = "sendErr"]
              /\ tables' = tables
         ELSE IF Blocked(d)
         THEN /\ Abandoned(wlock)
              /\ err' = [err EXCEPT ![d] = "busy"]
              /\ pc' = [pc EXCEPT ![d] = "sendErr"]
              /\ tables' = tables
         ELSE /\ tables' = tables \cup {symbols[d]}
              /\ pc' = [pc EXCEPT ![d] = "begin"]
              /\ err' = err
    /\ UNCHANGED <<api, symbols, rows, wlock, tx, unixtime, data, idx, fetched,
                   got, proc, run, prevRows, prevGot>>

----------------------------------------------------------------------------
\* writeToDB (chrypto.go:128-173).

\* Line 136: db.Begin.
Begin(d) ==
    /\ Active(d)
    /\ pc[d] = "begin"
    /\ tx' = [tx EXCEPT ![d] = [open |-> TRUE, rows |-> <<>>]]
    /\ idx' = [idx EXCEPT ![d] = 1]
    /\ pc' = [pc EXCEPT ![d] = "insert"]
    /\ UNCHANGED <<api, symbols, tables, rows, wlock, unixtime, data, err,
                   fetched, got, proc, run, prevRows, prevGot>>

LoopEndsAtLength(d) == idx[d] > Len(data[d])

\* Lines 141-145: the range is exhausted, or the quote is a placeholder.
LoopEnds(d) ==
    IF idx[d] > Len(data[d]) THEN TRUE ELSE isDummyQuote(data[d][idx[d]])

NeverConflicts(d, q) == FALSE

\* The UNIQUE constraint on time (line 75), seen from the connection of d:
\* the committed rows and the rows of its own transaction.
Conflicts(d, q) ==
    \E r \in Range(rows[symbols[d]]) \cup Range(tx[d].rows) : r.Time = q.Time

LoopExit(d) ==
    /\ Active(d)
    /\ pc[d] = "insert"
    /\ LoopEnds(d)
    /\ pc' = [pc EXCEPT ![d] = "commit"]
    /\ UNCHANGED <<api, symbols, tables, rows, wlock, tx, unixtime, data, idx,
                   err, fetched, got, proc, run, prevRows, prevGot>>

InsertFailingOnDuplicate(d) ==
    /\ Active(d)
    /\ pc[d] = "insert"
    /\ ~LoopEnds(d)
    /\ IF Blocked(d)
         THEN /\ Abandoned(wlock)
              /\ err' = [err EXCEPT ![d] = "busy"]
              /\ pc' = [pc EXCEPT ![d] = "sendErr"]
              /\ UNCHANGED <<wlock, tx, idx>>
         ELSE IF Conflicts(d, data[d][idx[d]])
         THEN /\ wlock' = d
              /\ err' = [err EXCEPT ![d] = "unique"]
              /\ pc' = [pc EXCEPT ![d] = "sendErr"]
              /\ UNCHANGED <<tx, idx>>
         ELSE /\ wlock' = d
              /\ tx' = [tx EXCEPT ![d].rows = Append(@, data[d][idx[d]])]
              /\ idx' = [idx EXCEPT ![d] = @ + 1]
              /\ UNCHANGED <<err, pc>>
    /\ UNCHANGED <<api, symbols, tables, rows, unixtime, data, fetched, got,
                   proc, run, prevRows, prevGot>>

\* Lines 147-166: one INSERT.  It takes the write lock and waits while a live
\* transaction holds it; when the lock stays with an abandoned transaction the
\* busy timeout expires and writeToDB returns the error.  Error 2067 skips
\* the quote and continues.
Insert(d) ==
    /\ Active(d)
    /\ pc[d] = "insert"
    /\ ~LoopEnds(d)
    /\ IF Blocked(d)
         THEN /\ Abandoned(wlock)
              /\ err' = [err EXCEPT ![d] = "busy"]
              /\ pc' = [pc EXCEPT ![d] = "sendErr"]
              /\ UNCHANGED <<wlock, tx, idx>>
         ELSE /\ wlock' = d
              /\ LET q == data[d][idx[d]] IN
                   tx' = [tx EXCEPT ![d].rows =
                             IF Conflicts(d, q) THEN @ ELSE Append(@, q)]
              /\ idx' = [idx EXCEPT ![d] = @ + 1]
              /\ UNCHANGED <<err, pc>>
    /\ UNCHANGED <<api, symbols, tables, rows, unixtime, data, fetched, got,
                   proc, run, prevRows, prevGot>>

StoreErrorCommitting(d) ==
    /\ Active(d)
    /\ \/ pc[d] \in {"select", "create", "begin"}
       \/ pc[d] = "insert" /\ ~LoopEnds(d)
    /\ err' = [err EXCEPT ![d] = "io"]
    /\ pc' = [pc EXCEPT ![d] = "sendErr"]
    /\ rows' = [rows EXCEPT ![symbols[d]] = @ \o tx[d].rows]
    /\ UNCHANGED <<api, symbols, tables, wlock, tx, unixtime, data, idx,
                   fetched, got, proc, run, prevRows, prevGot>>

\* Lines 98-99, 78-80, 131-134, 137-139, 152-155, 162-165: a store call fails
\* with an error other than 2067 and writeToDB returns it.  The transaction,
\* when one is open, is neither committed nor rolled back.
StoreError(d) ==
    /\ Active(d)
    /\ \/ pc[d] \in {"select", "create", "begin"}
       \/ pc[d] = "insert" /\ ~LoopEnds(d)
    /\ err' = [err EXCEPT ![d] = "io"]
    /\ pc' = [pc EXCEPT ![d] = "sendErr"]
    /\ UNCHANGED <<api, symbols, tables, rows, wlock, tx, unixtime, data, idx,
                   fetched, got, proc, run, prevRows, prevGot>>

latest(d) == Last(data[d])

\* Line 171: quotes[0].
earliest(d) == data[d][1]

CommitDiscarding(d) ==
    /\ Active(d)
    /\ pc[d] = "commit"
    /\ tx' = [tx EXCEPT ![d] = NoTx]
    /\ wlock' = IF wlock = d THEN NoDriver ELSE wlock
    /\ unixtime' = [unixtime EXCEPT ![d] = earliest(d).Time - 1]
    /\ pc' = [pc EXCEPT ![d] = "sleep"]
    /\ UNCHANGED <<api, symbols, tables, rows, data, idx, err, fetched, got,
                   proc, run, prevRows, prevGot>>

CommitOverwriting(d) ==
    /\ Active(d)
    /\ pc[d] = "commit"
    /\ rows' = [rows EXCEPT ![symbols[d]] = tx[d].rows]
    /\ tx' = [tx EXCEPT ![d] = NoTx]
    /\ wlock' = IF wlock = d THEN NoDriver ELSE wlock
    /\ unixtime' = [unixtime EXCEPT ![d] = earliest(d).Time - 1]
    /\ pc' = [pc EXCEPT ![d] = "sleep"]
    /\ UNCHANGED <<api, symbols, tables, data, idx, err, fetched, got, proc,
                   run, prevRows, prevGot>>

\* Lines 170-172 and 191: tx.Commit, return quotes[0], untilDate.  The result
\* of tx.Commit is discarded by the code; the commit is taken to succeed.
Commit(d) ==
    /\ Active(d)
    /\ pc[d] = "commit"
    /\ rows' = [rows EXCEPT ![symbols[d]] = @ \o tx[d].rows]
    /\ tx' = [tx EXCEPT ![d] = NoTx]
    /\ wlock' = IF wlock = d THEN NoDriver ELSE wlock
    /\ unixtime' = [unixtime EXCEPT ![d] = earliest(d).Time - 1]
    /\ pc' = [pc EXCEPT ![d] = "sleep"]
    /\ UNCHANGED <<api, symbols, tables, data, idx, err, fetched, got, proc,
                   run, prevRows, prevGot>>

----------------------------------------------------------------------------
\* main (chrypto.go:200-232).

\* Lines 181 and 226: the send on donec meets the receive of main's select.
RecvDone(d) ==
    /\ Active(d)
    /\ pc[d] = "sendDone"
    /\ Len(got) < Cardinality(Drivers)
    /\ got' = Append(got, [chan |-> "donec", from |-> d, msg |-> symbols[d]])
    /\ pc' = [pc EXCEPT ![d] = "done"]
    /\ UNCHANGED <<api, symbols, tables, rows, wlock, tx, unixtime, data, idx,
                   err, fetched, proc, run, prevRows, prevGot>>

\* Lines 187 and 228: the send on errc meets the receive of main's select.
RecvErr(d) ==
    /\ Active(d)
    /\ pc[d] = "sendErr"
    /\ Len(got) < Cardinality(Drivers)
    /\ got' = Append(got, [chan |-> "errc", from |-> d, msg |-> err[d]])
    /\ pc' = [pc EXCEPT ![d] = "failed"]
    /\ UNCHANGED <<api, symbols, tables, rows, wlock, tx, unixtime, data, idx,
                   err, fetched, proc, run, prevRows, prevGot>>

\* Lines 224-232: after len(symbols) receives main returns.
MainReturn ==
    /\ proc = "running"
    /\ Len(got) = Cardinality(Drivers)
    /\ proc' = "exited"
    /\ UNCHANGED <<api, symbols, tables, rows, wlock, tx, pc, unixtime, data,
                   idx, err, fetched, got, run, prevRows, prevGot>>

\* The same command is invoked again on the same database file and the same
\* remote history (lines 200-222).  SQLite discards what the ended process
\* left uncommitted.
Rerun ==
    /\ proc # "running"
    /\ run = 1
    /\ run' = 2
    /\ prevRows' = rows
    /\ prevGot' = got
    /\ wlock' = NoDriver
    /\ tx' = [d \in Drivers |-> NoTx]
    /\ pc' = [d \in Drivers |-> "get"]
    /\ unixtime' = [d \in Drivers |-> MaxTime]
    /\ data' = [d \in Drivers |-> <<>>]
    /\ idx' = [d \in Drivers |-> 0]
    /\ err' = [d \in Drivers |-> "nil"]
    /\ fetched' = [d \in Drivers |-> "none"]
    /\ got' = <<>>
    /\ proc' = "running"
    /\ UNCHANGED <<api, symbols, tables, rows>>

Step(d) ==
    \/ GetPage(d)
    \/ GetTransportError(d)
    \/ GetDecodeError(d)
    \/ GetHangs(d)
    \/ Classify(d)
    \/ Sleep(d)
    \/ createTableIfNeeded(d)
    \/ createTable(d)
    \/ Begin(d)
    \/ LoopExit(d)
    \/ Insert(d)
    \/ StoreError(d)
    \/ Commit(d)
    \/ RecvDone(d)
    \/ RecvErr(d)

Next ==
    \/ \E d \in DriverIds : Step(d)
    \/ MainReturn

Spec == Init /\ [][Next]_vars

\* One symbol on the command line, and the command invoked a second time.
InitRerun == Init /\ Len(symbols) = 1

NextRerun == Next \/ Rerun

SpecRerun == InitRerun /\ [][NextRerun]_vars

----------------------------------------------------------------------------
\* Helpers of the properties.

\* Positions of a batch that precede its first placeholder.
PreSentinel(q) ==
    {i \in 1..Len(q) : \A j \in 1..i : ~isDummyQuote(q[j])}

\* Rows of the table of symbol s that carry hour t.
RowsAt(s, t) == {i \in 1..Len(rows[s]) : rows[s][i].Time = t}

\* Hours of the pages driver d has been served in this invocation, the page
\* in data[d] included: the pages are contiguous and end at MaxTime.
ServedHours(d) == (unixtime[d] - PageSize + 1)..MaxTime

\* The remote served driver d pages of real quotes only, then, last, the
\* page in data[d]: real quotes followed by at least one placeholder.
ServedAsFullPagesThenTail(d) ==
    /\ fetched[d] = "ok"
    /\ \A t \in (unixtime[d] + 1)..MaxTime : KindAt(t) # "zero"
    /\ isDummyQuote(Last(data[d]))
    /\ \A i \in 1..Len(data[d]) :
          i \in PreSentinel(data[d]) \/ isDummyQuote(data[d][i])

\* C1: when the remote serves full pages of real quotes and then a final
\* page of real quotes followed by placeholders, a driver that ended Done
\* leaves exactly one row in its table for every real quote it was served.
C1_Completeness ==
    \A d \in Drivers :
        (pc[d] = "done" /\ ServedAsFullPagesThenTail(d))
        => \A t \in ServedHours(d) :
              KindAt(t) # "zero"
              => Cardinality(RowsAt(symbols[d], t)) = 1

\* C2: a page whose last quote is a placeholder ends the driver in Done, and
\* by then every quote that precedes the page's first placeholder has a row
\* in the table.
C2_FinalPagePersisted ==
    \A d \in Drivers :
        (/\ pc[d] \notin {"get", "classify"}
         /\ Len(data[d]) > 0
         /\ isDummyQuote(Last(data[d])))
        => /\ pc[d] \in {"sendDone", "done"}
           /\ pc[d] = "done"
              => \A i \in PreSentinel(data[d]) :
                    RowsAt(symbols[d], data[d][i].Time) # {}

\* Every driver of the invocation whose received messages are g ended Done.
FullRun(g) ==
    /\ Len(g) = Cardinality(Drivers)
    /\ \A i \in 1..Len(g) : g[i].chan = "donec"

\* C3: when the backfill of one instrument ran to Done and the same command
\* runs again on the same remote history, the table stays as the first run
\* left it and no duplicate makes the second run report an error (the only
\* errors left are failures of the store itself).
C3_Idempotent ==
    (run = 2 /\ FullRun(prevGot))
    => /\ rows = prevRows
       /\ \A d \in Drivers : pc[d] \in {"sendErr", "failed"} => err[d] = "io"
       /\ (proc = "exited" /\ \A d \in Drivers : err[d] = "nil") => FullRun(got)

\* The second run ended Done after a first run that filled the table.
C3_Witness ==
    /\ run = 2
    /\ proc = "exited"
    /\ FullRun(prevGot)
    /\ FullRun(got)
    /\ Len(rows[symbols[1]]) = MaxTime

\* The step of driver d is an INSERT of a quote whose hour already has a
\* committed row, and the store reports no other error.
C4_ConflictingInsert(d) ==
    /\ pc[d] = "insert"
    /\ ~LoopEnds(d)
    /\ RowsAt(symbols[d], data[d][idx[d]].Time) # {}
    /\ <<pc[d], idx[d], err[d]>>' # <<pc[d], idx[d], err[d]>>
    /\ err'[d] \notin {"io", "busy"}

\* The step of driver d is the commit that ends a successful writeToDB.
C4_Commits(d) == pc[d] = "commit" /\ pc'[d] = "sleep"

\* C4: an INSERT that meets an existing hour is skipped without an error and
\* the loop goes on; the commit of the batch leaves every earlier row as it
\* was and the table then holds, once, every pre-sentinel quote of the batch:
\* the new ones with the values of the batch.
C4_ConflictSkipped ==
    [][\A d \in Drivers :
        /\ C4_ConflictingInsert(d)
           => /\ pc'[d] = "insert"
              /\ err'[d] = "nil"
              /\ idx'[d] = idx[d] + 1
              /\ tx'[d] = tx[d]
              /\ rows' = rows
        /\ C4_Commits(d)
           => LET s == symbols[d] IN
              /\ SubSeq(rows'[s], 1, Len(rows[s])) = rows[s]
              /\ \A i \in PreSentinel(data[d]) :
                    /\ Cardinality(RowsAt(s, data[d][i].Time)') = 1
                    /\ RowsAt(s, data[d][i].Time) = {}
                       => data[d][i] \in Range(rows'[s])
      ]_vars

\* A successful writeToDB whose batch met an earlier row with other values
\* and persisted a quote that comes after it.
C4_Witness ==
    \E d \in Drivers :
        /\ pc[d] = "sleep"
        /\ \E i, j \in PreSentinel(data[d]) :
              /\ i < j
              /\ data[d][i] \notin Range(rows[symbols[d]])
              /\ RowsAt(symbols[d], data[d][i].Time) # {}
              /\ data[d][j] \in Range(rows[symbols[d]])
              /\ \A k \in 1..Len(StaleRows(symbols[d])) :
                    StaleRows(symbols[d])[k].Time # data[d][j].Time

\* C5: the commit of a successful writeToDB sets the next cursor to the time
\* of the first quote of the batch minus one, which is below the cursor of
\* the cycle; no other step of an invocation moves a cursor.
C5_CursorMonotonic ==
    [][\A d \in Drivers :
        IF C4_Commits(d)
          THEN /\ unixtime'[d] = data[d][1].Time - 1
               /\ unixtime'[d] < unixtime[d]
          ELSE run' = run => unixtime'[d] = unixtime[d]
      ]_vars

\* A commit moved the cursor although the loop stopped at a placeholder.
C5_Witness ==
    \E d \in Drivers :
        /\ pc[d] = "sleep"
        /\ unixtime[d] = MaxTime - PageSize
        /\ \E i \in 1..Len(data[d]) : isDummyQuote(data[d][i])

\* C6: with two instruments, a transport error of the first fetch of one
\* leaves the process going: that driver ends Failed, and when main has
\* returned it has received one message on errc and, the other driver having
\* met no failure, one on donec.
C6_FailureIsolated ==
    \A d, e \in Drivers :
        (/\ symbols[d] # symbols[e]
         /\ fetched[d] = "transport"
         /\ unixtime[d] = MaxTime)
        => /\ proc \in {"running", "exited"}
           /\ pc[d] \in {"sendErr", "failed"}
           /\ (proc = "exited" /\ fetched[e] = "ok" /\ err[e] = "nil")
              => /\ \E i \in 1..Len(got) :
                      got[i].from = d /\ got[i].chan = "errc"
                 /\ \E i \in 1..Len(got) :
                      got[i].from = e /\ got[i].chan = "donec"

\* The quotes the transaction of driver d added stay out of the table.
C7_Invisible(d) ==
    \A q \in Range(tx[d].rows) : RowsAt(symbols[d], q.Time) = {}

\* The step in which an INSERT of driver d fails with another error than
\* 2067 leaves the table alone; from then on the driver only hands its error
\* to main on errc and neither fetches nor writes.
C7_Stops(d) ==
    /\ (pc[d] = "insert" /\ pc'[d] = "sendErr")
       => /\ rows' = rows
          /\ err'[d] # "nil"
    /\ pc[d] = "sendErr"
       => /\ pc'[d] \in {"sendErr", "failed"}
          /\ <<unixtime[d], data[d], idx[d], tx[d], err[d]>>'
                = <<unixtime[d], data[d], idx[d], tx[d], err[d]>>
          /\ pc'[d] = "failed"
             => got' = Append(got, [chan |-> "errc", from |-> d,
                                    msg |-> err[d]])
    /\ pc[d] = "failed"
       => <<pc[d], unixtime[d], data[d], idx[d], tx[d], err[d]>>'
             = <<pc[d], unixtime[d], data[d], idx[d], tx[d], err[d]>>

\* C7: when writeToDB returns an error from inside the loop nothing of the
\* batch is committed, the quotes inserted before the failure included, and
\* the driver sends the error on errc without another fetch or write.
C7_AtomicOnError ==
    /\ [](\A d \in Drivers :
            pc[d] \in {"sendErr", "failed"} => C7_Invisible(d))
    /\ [][\A d \in Drivers : C7_Stops(d)]_vars

\* A driver ended Failed on a store error after an INSERT of the batch had
\* succeeded.
C7_Witness ==
    \E d \in Drivers :
        /\ pc[d] = "failed"
        /\ err[d] = "io"
        /\ Len(tx[d].rows) > 0

\* Messages main has received from driver d.
Sent(d) == {i \in 1..Len(got) : got[i].from = d}

\* C8: every driver sends one message, never two, and when the process has
\* ended every driver has sent its one message and main has received them all.
C8_OneSignalEach ==
    /\ \A d \in Drivers : Cardinality(Sent(d)) <= 1
    /\ proc # "running"
       => /\ \A d \in Drivers : Cardinality(Sent(d)) = 1
          /\ Len(got) = Cardinality(Drivers)

\* C9: a driver whose fetch failed, in transport or in decoding, is on its
\* way to Failed with the error for main, in a process that goes on.
C9_FetchFailureFails ==
    \A d \in Drivers :
        fetched[d] \in {"transport", "decode"}
        => /\ proc \in {"running", "exited"}
           /\ pc[d] \in {"sendErr", "failed"}

\* C10: no table holds a row whose open, high, low and close are all zero.
C10_NoSentinelRows ==
    \A s \in Symbols :
        \A i \in 1..Len(rows[s]) : ~isDummyQuote(rows[s][i])

\* A batch with a placeholder ahead of a real last quote went through
\* writeToDB in the second cycle of a driver, after rows had been committed.
C10_Witness ==
    \E d \in Drivers :
        /\ pc[d] = "sleep"
        /\ unixtime[d] = MaxTime - (2 * PageSize)
        /\ isDummyQuote(data[d][1])
        /\ Len(rows[symbols[d]]) > 0

\* The step of driver d is a fetch that follows a successful writeToDB of
\* the batch in data[d].
C11_NextFetch(d) ==
    /\ pc[d] = "get"
    /\ pc'[d] = "classify"
    /\ Len(data[d]) > 0
    /\ run' = run

\* C11: the page fetched after a successful write, which is the next batch
\* written, holds only quotes earlier than every quote of the batch written
\* before it; the batches of a run are written one after the other, so any
\* later batch is earlier than any batch before it.
C11_WritesGoBackInTime ==
    [][\A d \in Drivers :
        C11_NextFetch(d)
        => \A i \in 1..Len(data'[d]) : \A j \in 1..Len(data[d]) :
              data'[d][i].Time < data[d][j].Time
      ]_vars

\* A driver committed its second batch, after a first batch that left rows.
C11_Witness ==
    \E d \in Drivers :
        /\ pc[d] = "sleep"
        /\ unixtime[d] = MaxTime - (2 * PageSize)
        /\ \E i \in 1..Len(rows[symbols[d]]) :
              rows[symbols[d]][i].Time > MaxTime - PageSize
        /\ \A i \in 1..Len(data[d]) : data[d][i].Time <= MaxTime - PageSize

\* Number of quotes of batch q that precede its first placeholder.
StopAt(q) == Cardinality(PreSentinel(q))

\* The quotes of batch q, up to position n, whose hour has no row in table t,
\* in batch order.
RECURSIVE NewQuotes(_, _, _)
NewQuotes(q, n, t) ==
    IF n = 0 THEN <<>>
    ELSE IF \E r \in Range(t) : r.Time = q[n].Time
           THEN NewQuotes(q, n - 1, t)
           ELSE Append(NewQuotes(q, n - 1, t), q[n])

\* C12: inside writeToDB the loop issues its INSERTs for positions 1, 2, ...
\* of the batch, one per step and only for positions before the first
\* placeholder; it leaves the loop exactly there, and the commit appends to
\* the table the quotes inserted up to that stop and nothing else.
C12_StopsAtFirstSentinel ==
    [][\A d \in Drivers :
        /\ (pc[d] = "insert" /\ idx'[d] # idx[d] /\ run' = run)
           => /\ idx[d] \in PreSentinel(data[d])
              /\ idx'[d] = idx[d] + 1
              /\ tx'[d].rows \in {tx[d].rows, Append(tx[d].rows, data[d][idx[d]])}
        /\ (pc[d] = "insert" /\ pc'[d] = "commit")
           => idx[d] = StopAt(data[d]) + 1
        /\ C4_Commits(d)
           => /\ idx[d] = StopAt(data[d]) + 1
              /\ rows'[symbols[d]] =
                    rows[symbols[d]]
                    \o NewQuotes(data[d], StopAt(data[d]), rows[symbols[d]])
      ]_vars

\* A successful writeToDB stopped at a placeholder in the middle of the
\* batch: the quote before it is committed, the real quote after it is not.
C12_Witness ==
    \E d \in Drivers :
        /\ pc[d] = "sleep"
        /\ \E i, j, k \in 1..Len(data[d]) :
              /\ i < j /\ j < k
              /\ ~isDummyQuote(data[d][i])
              /\ isDummyQuote(data[d][j])
              /\ ~isDummyQuote(data[d][k])
              /\ data[d][i] \in Range(rows[symbols[d]])
              /\ RowsAt(symbols[d], data[d][k].Time) = {}

\* C13: no driver is handed the error of a CREATE TABLE on a table that
\* exists, and so none ends Failed for it.
C13_CreateIsIdempotent ==
    \A d \in Drivers :
        /\ err[d] # "exists"
        /\ pc[d] \in {"sendErr", "failed"} => err[d] \in {"io", "busy"}

\* Positions of a driver outside writeToDB.
OutsideWrite == {"get", "hung", "classify", "sleep",
                 "sendDone", "done", "sendErr", "failed"}

\* C14: a driver that is outside writeToDB has no open transaction and its
\* connection does not hold the write lock.
C14_NoTxOutsideWrite ==
    \A d \in Drivers :
        pc[d] \in OutsideWrite => (~tx[d].open /\ wlock # d)


\* Driver d ended: it sent its signal and main received it.
Terminal(d) == pc[d] \in {"done", "failed"}

\* C15: when every fetch returned (none hangs, none ends the process from
\* inside get), a driver stops only by ending Done or Failed: as long as a
\* driver has not ended, some step of the program is still possible.
C15_StopsOnlyDoneOrFailed ==
    \/ \E d \in Drivers : pc[d] = "hung" \/ fetched[d] = "transport"
    \/ \A d \in Drivers : Terminal(d)
    \/ ENABLED Next

\* The states of writeToDB.
InsideWrite == {"select", "create", "begin", "insert", "commit"}

\* C16: a driver whose fetch returned a page of zero quotes does not enter
\* writeToDB with it and the process does not crash on it.
C16_EmptyPageGuarded ==
    \A d \in Drivers :
        (fetched[d] \in {"ok", "decode"} /\ Len(data[d]) = 0)
        => /\ proc # "panic"
           /\ pc[d] \notin InsideWrite

\* C17: every step leaves every committed row in its place with its values
\* and every created table in existence: each table only grows at its end.
C17_AppendOnly ==
    [][/\ tables \subseteq tables'
       /\ \A s \in Symbols :
             /\ Len(rows'[s]) >= Len(rows[s])
             /\ SubSeq(rows'[s], 1, Len(rows[s])) = rows[s] ]_vars

\* A table that held rows before the invocation has grown by a commit and
\* still starts with those rows.
C17_Witness ==
    \E d \in Drivers :
        LET s == symbols[d] IN
        /\ pc[d] = "sleep"
        /\ Len(rows[s]) > Len(StaleRows(s))
        /\ SubSeq(rows[s], 1, Len(StaleRows(s))) = StaleRows(s)


\* What main can know of driver d: Done, Failed, Running, or stopped with the
\* process before it sent its signal.
DriverState(d) ==
    IF pc[d] = "done" THEN "Done"
    ELSE IF pc[d] = "failed" THEN "Failed"
    ELSE IF proc = "running" THEN "Running"
    ELSE "Stopped"

\* C18: a step of the driver of one symbol leaves the table, the cursor and
\* the Running/Done/Failed state of the driver of another symbol as they
\* were, and a table holds only quotes served for its own symbol.
C18_NoInterference ==
    /\ [](\A s \in Symbols :
            \A i \in 1..Len(rows[s]) : rows[s][i].VolumeTo = Vol(s))
    /\ [][\A a, b \in Drivers :
            (symbols[a] # symbols[b] /\ Step(a))
            => /\ rows'[symbols[b]] = rows[symbols[b]]
               /\ (symbols[b] \in tables') <=> (symbols[b] \in tables)
               /\ unixtime'[b] = unixtime[b]
               /\ DriverState(b)' = DriverState(b)
      ]_vars

\* C19: a fetch that has not returned goes on: while the process runs, a
\* driver waiting inside get has a step to take (the answer, or the error of
\* a timeout).
C19_FetchReturns ==
    \A d \in Drivers :
        (pc[d] = "hung" /\ proc = "running") => ENABLED Step(d)

====
